---- MODULE Spec2Model ----
(***************************************************************************)
(* otelpgx: pool-statistics observer (RecordStats / recordStats and the    *)
(* callback it registers) and the slog <-> tracelog level converter.       *)
(*                                                                         *)
(* Time is counted in whole seconds.  A time.Time is the number of seconds *)
(* since the zero Time; a time.Duration is a signed integer of             *)
(* DurationBits bits, and Time.Sub saturates at its ends as in Go.         *)
(***************************************************************************)
EXTENDS Integers, Sequences, FiniteSets, TLC

\* ------------------------------------------------------------------ bounds
MaxCalls == 3        \* callback invocations, each on a goroutine of its own
MaxClock == 2        \* seconds the monotonic clock advances
MaxGen == 1          \* changes of the pool's statistics
DurationBits == 4    \* width of time.Duration in the model (64 in Go)
LevelMargin == 4     \* levels tried beyond the defined ones, on each side
MaxOpts == 3         \* options given to NewTraceLogger

\* --------------------------------------------------------------- constants
defaultMinimumReadDBStatsInterval == 1
NanosPerMilli == 1000000
NumInstruments == 12

\* slog levels: slog's own four, and the two log.go adds
LevelTrace == -8
LevelDebug == -4
LevelInfo == 0
LevelWarn == 4
LevelError == 8
LevelNone == 12

\* tracelog.LogLevel
LogLevelNone == 1
LogLevelError == 2
LogLevelWarn == 3
LogLevelInfo == 4
LogLevelDebug == 5
LogLevelTrace == 6

MaxDuration == (2 ^ (DurationBits - 1)) - 1
MinDuration == 0 - (2 ^ (DurationBits - 1))

\* The zero time.Time, the initial value of lastDBStats.
ZeroTime == 0
\* time.Now() when the model's clock reads 0: further from the zero Time
\* than a Duration can hold (the year is past 292).
Epoch == MaxDuration + 2

Setups == {1, 2}
\* the callback invocations, numbered in the order in which they start
Callers == 1..MaxCalls

\* The instrument names, in the order recordStats creates them, which is
\* also the order in which the callback observes them.
InstrumentNames ==
    << "pgxpool_acquires", "pgxpool_acquire_duration", "pgxpool_acquired_conns",
       "pgxpool_canceled_acquires", "pgxpool_constructing_conns",
       "pgxpool_empty_acquire", "pgxpool_idle_conns", "pgxpool_max_conns",
       "pgxpool_max_idle_destroys", "pgxpool_max_lifetime_destroys",
       "pgxpool_new_conns", "pgxpool_total_conns" >>

Instruments == 1..NumInstruments

\* ------------------------------------------------------------------ values
\* error values; NilErr is Go's nil error
NilErr == [op |-> "nil", name |-> ""]
ExporterErr == [op |-> "stdoutmetric.New", name |-> ""]
CreateErr(i) == [op |-> "create", name |-> InstrumentNames[i]]
RegisterErr == [op |-> "RegisterCallback", name |-> ""]

\* meter providers: the one RecordStats builds for call s, and one a caller
\* hands in through WithMeterProvider
NewProvider(s) == <<"mp", s>>
GivenProvider == <<"given", 0>>
Providers == {NewProvider(s) : s \in Setups} \cup {GivenProvider}

\* options of RecordStats
WithMeterProvider(p) == [opt |-> "provider", provider |-> p, interval |-> 0]
WithMinimumReadDBStatsInterval(d) ==
    [opt |-> "interval", provider |-> GivenProvider, interval |-> d]

\* the default observe options: one attribute, db.system = postgresql
DefaultObserveOptions == << "db.system=postgresql" >>

\* the intervals a caller passes: negative, zero, positive, the largest
Intervals == {0 - 1, 0, 2, MaxDuration}

\* the option lists RecordStats is called with
OptionLists ==
    { << >> }
    \cup { << WithMinimumReadDBStatsInterval(d) >> : d \in Intervals }
    \cup { << WithMeterProvider(GivenProvider) >> }
    \cup { << WithMinimumReadDBStatsInterval(d), WithMeterProvider(GivenProvider) >> :
             d \in {0, 2} }

\* opt.applyMeterOptions(&o)
applyMeterOptions(opt, o) ==
    IF opt.opt = "provider"
    THEN [o EXCEPT !.provider = opt.provider]
    ELSE [o EXCEPT !.minimumReadDBStatsInterval = opt.interval]

\* for _, opt := range opts { opt.applyMeterOptions(&o) }
RECURSIVE ApplyAll(_, _)
ApplyAll(opts, o) ==
    IF opts = << >> THEN o
    ELSE ApplyAll(Tail(opts), applyMeterOptions(Head(opts), o))

\* the Meter struct RecordStats starts from
DefaultMeter(s) ==
    [provider |-> NewProvider(s),
     minimumReadDBStatsInterval |-> defaultMinimumReadDBStatsInterval,
     observeOptions |-> DefaultObserveOptions]

\* ----------------------------------------------------------------- the pool
\* db.Stat(): the snapshot of the pool after g changes of its statistics
PoolStat(g) ==
    [AcquireCount |-> g,
     AcquireDuration |-> (g * NanosPerMilli) + (IF g > 1 THEN NanosPerMilli \div 2 ELSE 0),
     AcquiredConns |-> g,
     CanceledAcquireCount |-> g \div 2,
     ConstructingConns |-> g % 2,
     EmptyAcquireCount |-> g \div 3,
     IdleConns |-> 3,
     MaxConns |-> 8,
     MaxIdleDestroyCount |-> 2 * g,
     MaxLifetimeDestroyCount |-> 3 * g,
     NewConnsCount |-> g + 3,
     TotalConns |-> g + (g % 2) + 3]

\* an int64 observation, and float64(x)/1e6 kept exact: whole + frac/1e6
IntValue(v) == [whole |-> v, frac |-> 0]
Millis(ns) == [whole |-> ns \div NanosPerMilli, frac |-> ns % NanosPerMilli]

\* a bug: the acquire duration is reported in nanoseconds
ObservedValueNanos(st, i) ==
    CASE i = 1 -> IntValue(st.AcquireCount)
      [] i = 2 -> IntValue(st.AcquireDuration)
      [] i = 3 -> IntValue(st.AcquiredConns)
      [] i = 4 -> IntValue(st.CanceledAcquireCount)
      [] i = 5 -> IntValue(st.ConstructingConns)
      [] i = 6 -> IntValue(st.EmptyAcquireCount)
      [] i = 7 -> IntValue(st.IdleConns)
      [] i = 8 -> IntValue(st.MaxConns)
      [] i = 9 -> IntValue(st.MaxIdleDestroyCount)
      [] i = 10 -> IntValue(st.MaxLifetimeDestroyCount)
      [] i = 11 -> IntValue(st.NewConnsCount)
      [] OTHER -> IntValue(st.TotalConns)

\* the value the callback reports on instrument i from snapshot st
ObservedValue(st, i) ==
    CASE i = 1 -> IntValue(st.AcquireCount)
      [] i = 2 -> Millis(st.AcquireDuration)
      [] i = 3 -> IntValue(st.AcquiredConns)
      [] i = 4 -> IntValue(st.CanceledAcquireCount)
      [] i = 5 -> IntValue(st.ConstructingConns)
      [] i = 6 -> IntValue(st.EmptyAcquireCount)
      [] i = 7 -> IntValue(st.IdleConns)
      [] i = 8 -> IntValue(st.MaxConns)
      [] i = 9 -> IntValue(st.MaxIdleDestroyCount)
      [] i = 10 -> IntValue(st.MaxLifetimeDestroyCount)
      [] i = 11 -> IntValue(st.NewConnsCount)
      [] OTHER -> IntValue(st.TotalConns)

\* ------------------------------------------------------------------ levels
\* a bug: the case of LevelTrace is missing, and trace falls to the default
ToTraceLogLevelNoTrace(level) ==
    CASE level = LevelDebug -> LogLevelDebug
      [] level = LevelInfo -> LogLevelInfo
      [] level = LevelWarn -> LogLevelWarn
      [] level = LevelError -> LogLevelError
      [] level = LevelNone -> LogLevelNone
      [] OTHER -> LogLevelNone

\* defaultLogLevelConverter.ToTraceLogLevel: switch leveler.Level()
ToTraceLogLevel(level) ==
    CASE level = LevelDebug -> LogLevelDebug
      [] level = LevelInfo -> LogLevelInfo
      [] level = LevelWarn -> LogLevelWarn
      [] level = LevelError -> LogLevelError
      [] level = LevelTrace -> LogLevelTrace
      [] level = LevelNone -> LogLevelNone
      [] OTHER -> LogLevelNone

\* defaultLogLevelConverter.ToSlogLevel: switch level
ToSlogLevel(level) ==
    CASE level = LogLevelDebug -> LevelDebug
      [] level = LogLevelInfo -> LevelInfo
      [] level = LogLevelWarn -> LevelWarn
      [] level = LogLevelError -> LevelError
      [] level = LogLevelTrace -> LevelTrace
      [] level = LogLevelNone -> LevelNone
      [] OTHER -> LevelNone

\* the levels the two sides define
SlogLevels == {LevelTrace, LevelDebug, LevelInfo, LevelWarn, LevelError, LevelNone}
TraceLogLevels ==
    {LogLevelTrace, LogLevelDebug, LogLevelInfo, LogLevelWarn, LogLevelError, LogLevelNone}

\* the levels a caller may pass: the defined ones, those between them and
\* some beyond
SlogInputs == (LevelTrace - LevelMargin)..(LevelNone + LevelMargin)
TraceLogInputs == (LogLevelNone - LevelMargin)..(LogLevelTrace + LevelMargin)

\* -------------------------------------------------------------------- time
\* a bug: the difference wraps around instead of saturating
SubWraps(t, u) ==
    (((t - u) - MinDuration) % (2 ^ DurationBits)) + MinDuration

\* Time.Sub: t - u, saturated to the range of a Duration
Sub(t, u) ==
    IF t - u > MaxDuration THEN MaxDuration
    ELSE IF t - u < MinDuration THEN MinDuration
    ELSE t - u

\* a bug: the interval is ignored and every invocation refreshes
RefreshAlways(now, last, interval) == Sub(now, last) >= 0

\* a bug: > where the code has >=
RefreshStrict(now, last, interval) == Sub(now, last) > interval

\* a bug: <= where the code has >=, so that a fresh snapshot is re-read and a
\* stale one is kept
RefreshReversed(now, last, interval) == Sub(now, last) <= interval

\* if now.Sub(lastDBStats) >= minimumReadDBStatsInterval
ShouldRefresh(now, last, interval) == Sub(now, last) >= interval

\* ------------------------------------------------------------------- state
VARIABLES
    program,         \* the RecordStats calls the application makes, one after another
    opts,            \* [Setups -> option list]: the arguments of each RecordStats call
    pc,              \* [Setups -> position of the RecordStats call]
    o,               \* [Setups -> the Meter struct of the call]
    ret,             \* [Setups -> the error the call returned]
    nextInst,        \* [Setups -> index of the next instrument to create]
    handles,         \* [Setups -> [Instruments -> << >> or <<handle>>]]
    lock,            \* [Setups -> owner of the call's mutex, << >> when free]
    dbStats,         \* [Setups -> << >> (nil) or <<snapshot>>]
    lastDBStats,     \* [Setups -> time of the last refresh]
    created,         \* [Providers -> [Instruments -> creations on its meter]]
    callbacks,       \* [Setups -> set of instruments of the registered callback]
    registrations,   \* [Setups -> number of RegisterCallback calls that succeeded]
    clock,           \* the latest reading of the monotonic clock, in seconds
    pool,            \* the changes of the pool's statistics db.Stat() has seen
    statCalls,       \* [Setups -> number of db.Stat() calls made by its callback]
    cpc,             \* [Callers -> position of the callback invocation]
    cset,            \* [Callers -> the setup whose callback it runs]
    cnow,            \* [Callers -> its local variable now]
    obs,             \* [Callers -> the observations it has made so far]
    calls,           \* callback invocations started so far
    keep,            \* whether the reports of the invocations are kept
    reports,         \* what the completed invocations reported, in order
    conv,            \* the level conversion in progress
    tl,              \* the trace logger under construction
    rc               \* the resource under construction

vars == << program, opts, pc, o, ret, nextInst, handles, lock, dbStats, lastDBStats,
           created, callbacks, registrations, clock, pool, statCalls,
           cpc, cset, cnow, obs, calls, keep, reports, conv, tl, rc >>

setupVars == << program, opts, pc, o, ret, nextInst, handles, created, callbacks, registrations >>
refreshVars == << dbStats, lastDBStats, statCalls >>
callerVars == << cpc, cset, cnow, obs, calls, keep, reports >>
envVars == << clock, pool >>

NoOwner == << >>
SetupOwner(s) == << "setup", s >>
CallbackOwner(c) == << "callback", c >>

NoConv == [dir |-> "none", step |-> 0, input |-> 0, mid |-> 0, back |-> 0]

\* no trace logger is being made
NoTraceLogger == [pc |-> "none"]

\* no resource is being made
NoResource == [pc |-> "none"]

\* time.Now(): the monotonic clock has not gone back since it was last
\* read; t is its reading
ClockReadings == clock..MaxClock
Now(t) == Epoch + t

\* db.Stat(): the pool has changed any number of times since it was last
\* asked
PoolReadings == pool..MaxGen

\* the meter of a RecordStats call: o.provider.Meter(internal.MeterName)
MeterOf(s) == o[s].provider

\* sync.Mutex: Lock returns only when nobody holds the mutex
LockFree(s) == lock[s] = NoOwner

\* the state right after the variables of recordStats are declared
InitMetrics(called, optionLists, keepReports, invocations) ==
    /\ opts \in [Setups -> optionLists]
    /\ \A s \in Setups \ called : opts[s] = << >>
    /\ program = called
    /\ pc = [s \in Setups |-> "notCalled"]
    /\ o = [s \in Setups |-> DefaultMeter(s)]
    /\ ret = [s \in Setups |-> NilErr]
    /\ nextInst = [s \in Setups |-> 1]
    /\ handles = [s \in Setups |-> [i \in Instruments |-> << >>]]
    /\ lock = [s \in Setups |-> NoOwner]
    /\ dbStats = [s \in Setups |-> << >>]
    /\ lastDBStats = [s \in Setups |-> ZeroTime]
    /\ created = [p \in Providers |-> [i \in Instruments |-> 0]]
    /\ callbacks = [s \in Setups |-> {}]
    /\ registrations = [s \in Setups |-> 0]
    /\ clock = 0
    /\ pool = 0
    /\ statCalls = [s \in Setups |-> 0]
    /\ cpc = [c \in Callers |-> IF c <= invocations THEN "ready" ELSE "unused"]
    /\ cset = [c \in Callers |-> 1]
    /\ cnow = [c \in Callers |-> ZeroTime]
    /\ obs = [c \in Callers |-> << >>]
    /\ calls = 0
    /\ keep = keepReports
    /\ reports = << >>

\* ... and no level is being converted, no trace logger or resource made
InitFor(called, optionLists, keepReports, invocations) ==
    /\ InitMetrics(called, optionLists, keepReports, invocations)
    /\ conv = NoConv
    /\ tl = NoTraceLogger
    /\ rc = NoResource

Init == InitFor({1}, OptionLists, FALSE, MaxCalls)

\* ------------------------------------------------------ RecordStats (setup)
\* the application calls RecordStats(db, opts...), after its earlier calls
\* have returned
RecordStats(s) ==
    /\ s \in program
    /\ pc[s] = "notCalled"
    /\ \A u \in program : u < s => pc[u] = "returned"
    /\ pc' = [pc EXCEPT ![s] = "start"]
    /\ UNCHANGED << program, opts, o, ret, nextInst, handles, created, callbacks,
                    registrations, lock, refreshVars, callerVars, envVars, conv, tl, rc >>

\* a bug: the error of newMeterProvider is kept but setup goes on
NewMeterProviderGoesOn(s) ==
    /\ pc[s] = "start"
    /\ \E ok \in BOOLEAN :
         ret' = [ret EXCEPT ![s] = IF ok THEN NilErr ELSE ExporterErr]
    /\ pc' = [pc EXCEPT ![s] = "options"]
    /\ UNCHANGED << program, opts, o, nextInst, handles, created, callbacks, registrations,
                    lock, refreshVars, callerVars, envVars, conv, tl, rc >>

\* mp, err := newMeterProvider(); if err != nil { return err }
NewMeterProvider(s) ==
    /\ pc[s] = "start"
    /\ \E ok \in BOOLEAN :
         IF ok
         THEN /\ pc' = [pc EXCEPT ![s] = "options"]
              /\ ret' = ret
         ELSE /\ pc' = [pc EXCEPT ![s] = "returned"]
              /\ ret' = [ret EXCEPT ![s] = ExporterErr]
    /\ UNCHANGED << program, opts, o, nextInst, handles, created, callbacks, registrations,
                    lock, refreshVars, callerVars, envVars, conv, tl, rc >>

\* o := Meter{...}; apply the options; meter := o.provider.Meter(...); the
\* call of recordStats, whose locals are declared here
ApplyOptions(s) ==
    /\ pc[s] = "options"
    /\ o' = [o EXCEPT ![s] = ApplyAll(opts[s], DefaultMeter(s))]
    /\ opts' = [opts EXCEPT ![s] = << >>]
    /\ pc' = [pc EXCEPT ![s] = "lock"]
    /\ UNCHANGED << program, ret, nextInst, handles, created, callbacks, registrations,
                    lock, refreshVars, callerVars, envVars, conv, tl, rc >>

\* a bug: recordStats does not take the lock
SetupNoLock(s) ==
    /\ pc[s] = "lock"
    /\ pc' = [pc EXCEPT ![s] = "create"]
    /\ UNCHANGED << program, opts, o, ret, nextInst, handles, created, callbacks, registrations,
                    lock, refreshVars, callerVars, envVars, conv, tl, rc >>

\* lock.Lock(); defer lock.Unlock()
SetupLock(s) ==
    /\ pc[s] = "lock"
    /\ LockFree(s)
    /\ lock' = [lock EXCEPT ![s] = SetupOwner(s)]
    /\ pc' = [pc EXCEPT ![s] = "create"]
    /\ UNCHANGED << program, opts, o, ret, nextInst, handles, created, callbacks, registrations,
                    refreshVars, callerVars, envVars, conv, tl, rc >>

\* a bug: the error of a creation is kept but the later instruments are
\* still created and the callback is registered
CreateInstrumentGoesOn(s) ==
    /\ pc[s] = "create"
    /\ LET i == nextInst[s]
           m == MeterOf(s)
       IN \E ok \in BOOLEAN :
            /\ IF ok
               THEN /\ handles' = [handles EXCEPT ![s][i] =
                                     << [meter |-> m, name |-> InstrumentNames[i]] >>]
                    /\ created' = [created EXCEPT ![m][i] = @ + 1]
                    /\ ret' = ret
               ELSE /\ ret' = [ret EXCEPT ![s] = CreateErr(i)]
                    /\ UNCHANGED << handles, created >>
            /\ nextInst' = [nextInst EXCEPT ![s] = i + 1]
            /\ pc' = [pc EXCEPT ![s] =
                        IF i = NumInstruments THEN "register" ELSE "create"]
    /\ UNCHANGED << program, opts, o, callbacks, registrations,
                    lock, refreshVars, callerVars, envVars, conv, tl, rc >>

\* a bug: Unlock is not deferred, and the return of a creation's error
\* leaves the lock held
CreateInstrumentKeepsLock(s) ==
    /\ pc[s] = "create"
    /\ LET i == nextInst[s]
           m == MeterOf(s)
       IN \E ok \in BOOLEAN :
            IF ok
            THEN /\ handles' = [handles EXCEPT ![s][i] =
                                  << [meter |-> m, name |-> InstrumentNames[i]] >>]
                 /\ created' = [created EXCEPT ![m][i] = @ + 1]
                 /\ nextInst' = [nextInst EXCEPT ![s] = i + 1]
                 /\ pc' = [pc EXCEPT ![s] =
                             IF i = NumInstruments THEN "register" ELSE "create"]
                 /\ ret' = ret
            ELSE /\ ret' = [ret EXCEPT ![s] = CreateErr(i)]
                 /\ pc' = [pc EXCEPT ![s] = "returned"]
                 /\ UNCHANGED << handles, created, nextInst >>
    /\ UNCHANGED << program, opts, o, callbacks, registrations,
                    lock, refreshVars, callerVars, envVars, conv, tl, rc >>

\* if x, err = meter.<Kind>(name, ...); err != nil { return err }
CreateInstrument(s) ==
    /\ pc[s] = "create"
    /\ LET i == nextInst[s]
           m == MeterOf(s)
       IN \E ok \in BOOLEAN :
            IF ok
            THEN /\ handles' = [handles EXCEPT ![s][i] =
                                  << [meter |-> m, name |-> InstrumentNames[i]] >>]
                 /\ created' = [created EXCEPT ![m][i] = @ + 1]
                 /\ nextInst' = [nextInst EXCEPT ![s] = i + 1]
                 /\ pc' = [pc EXCEPT ![s] =
                             IF i = NumInstruments THEN "register" ELSE "create"]
                 /\ ret' = ret
            ELSE /\ ret' = [ret EXCEPT ![s] = CreateErr(i)]
                 /\ pc' = [pc EXCEPT ![s] = "unlock"]
                 /\ UNCHANGED << handles, created, nextInst >>
    /\ UNCHANGED << program, opts, o, callbacks, registrations,
                    lock, refreshVars, callerVars, envVars, conv, tl, rc >>

\* the twelve instruments handed to RegisterCallback
RegisteredInstruments(s) == { i \in Instruments : handles[s][i] # << >> }

\* _, err = meter.RegisterCallback(func..., acquireCount, ..., totalConns)
RegisterCallback(s) ==
    /\ pc[s] = "register"
    /\ \E ok \in BOOLEAN :
         IF ok
         THEN /\ callbacks' = [callbacks EXCEPT ![s] = RegisteredInstruments(s)]
              /\ registrations' = [registrations EXCEPT ![s] = @ + 1]
              /\ ret' = ret
         ELSE /\ ret' = [ret EXCEPT ![s] = RegisterErr]
              /\ UNCHANGED << callbacks, registrations >>
    /\ pc' = [pc EXCEPT ![s] = "unlock"]
    /\ UNCHANGED << program, opts, o, nextInst, handles, created,
                    lock, refreshVars, callerVars, envVars, conv, tl, rc >>

\* return err, which runs the deferred lock.Unlock()
SetupReturn(s) ==
    /\ pc[s] = "unlock"
    /\ lock' = [lock EXCEPT ![s] = NoOwner]
    /\ pc' = [pc EXCEPT ![s] = "returned"]
    /\ UNCHANGED << program, opts, o, ret, nextInst, handles, created, callbacks, registrations,
                    refreshVars, callerVars, envVars, conv, tl, rc >>

\* ------------------------------------------------------------ the callback
\* the telemetry runtime starts a collection on goroutine c: it invokes the
\* callback that setup s registered
CallbackStart(c, s) ==
    /\ cpc[c] = "ready"
    /\ calls = c - 1
    /\ registrations[s] > 0
    /\ cpc' = [cpc EXCEPT ![c] = "lock"]
    /\ cset' = [cset EXCEPT ![c] = s]
    /\ obs' = [obs EXCEPT ![c] = << >>]
    /\ calls' = calls + 1
    /\ UNCHANGED << cnow, keep, reports, setupVars, lock, refreshVars, envVars, conv, tl, rc >>

\* a bug: the callback does not wait for the lock
CallbackNoLock(c) ==
    /\ cpc[c] = "lock"
    /\ lock' = [lock EXCEPT ![cset[c]] = CallbackOwner(c)]
    /\ cpc' = [cpc EXCEPT ![c] = "refresh"]
    /\ UNCHANGED << cset, cnow, obs, calls, keep, reports, setupVars, refreshVars, envVars, conv, tl, rc >>

\* lock.Lock(); defer lock.Unlock()
CallbackLock(c) ==
    /\ cpc[c] = "lock"
    /\ LockFree(cset[c])
    /\ lock' = [lock EXCEPT ![cset[c]] = CallbackOwner(c)]
    /\ cpc' = [cpc EXCEPT ![c] = "refresh"]
    /\ UNCHANGED << cset, cnow, obs, calls, keep, reports, setupVars, refreshVars, envVars, conv, tl, rc >>

\* a bug: dbStats and lastDBStats are variables of the package, shared by
\* the callbacks of all setups, not locals of recordStats
CallbackRefreshShared(c) ==
    /\ cpc[c] = "refresh"
    /\ LET s == cset[c]
       IN \E t \in ClockReadings :
            /\ clock' = t
            /\ cnow' = [cnow EXCEPT ![c] = Now(t)]
            /\ IF ShouldRefresh(Now(t), lastDBStats[s], o[s].minimumReadDBStatsInterval)
               THEN \E g \in PoolReadings :
                      /\ pool' = g
                      /\ dbStats' = [u \in Setups |-> << PoolStat(g) >>]
                      /\ lastDBStats' = [u \in Setups |-> Now(t)]
                      /\ statCalls' = [statCalls EXCEPT ![s] = @ + 1]
               ELSE UNCHANGED << pool, dbStats, lastDBStats, statCalls >>
    /\ cpc' = [cpc EXCEPT ![c] = "observe"]
    /\ UNCHANGED << cset, obs, calls, keep, reports, setupVars, lock, conv, tl, rc >>

\* now := time.Now()
\* if now.Sub(lastDBStats) >= minimumReadDBStatsInterval {
\*     dbStats = db.Stat(); lastDBStats = now }
CallbackRefresh(c) ==
    /\ cpc[c] = "refresh"
    /\ LET s == cset[c]
       IN \E t \in ClockReadings :
            /\ clock' = t
            /\ cnow' = [cnow EXCEPT ![c] = Now(t)]
            /\ IF ShouldRefresh(Now(t), lastDBStats[s], o[s].minimumReadDBStatsInterval)
               THEN \E g \in PoolReadings :
                      /\ pool' = g
                      /\ dbStats' = [dbStats EXCEPT ![s] = << PoolStat(g) >>]
                      /\ lastDBStats' = [lastDBStats EXCEPT ![s] = Now(t)]
                      /\ statCalls' = [statCalls EXCEPT ![s] = @ + 1]
               ELSE UNCHANGED << pool, dbStats, lastDBStats, statCalls >>
    /\ cpc' = [cpc EXCEPT ![c] = "observe"]
    /\ UNCHANGED << cset, obs, calls, keep, reports, setupVars, lock, conv, tl, rc >>

\* one o.ObserveInt64 / o.ObserveFloat64 call: the next instrument's handle,
\* the value of its field of *dbStats, and attrs
Observation(s, i) ==
    [instrument |-> handles[s][i],
     value |-> ObservedValue(Head(dbStats[s]), i),
     attrs |-> o[s].observeOptions]

\* the twelve observe calls, one per step; dereferencing a nil dbStats
\* panics, and the deferred Unlock runs while the panic unwinds
CallbackObserve(c) ==
    /\ cpc[c] = "observe"
    /\ LET s == cset[c]
           i == Len(obs[c]) + 1
       IN IF dbStats[s] = << >>
          THEN /\ cpc' = [cpc EXCEPT ![c] = "panicked"]
               /\ lock' = [lock EXCEPT ![s] = NoOwner]
               /\ obs' = obs
          ELSE /\ obs' = [obs EXCEPT ![c] = Append(@, Observation(s, i))]
               /\ cpc' = [cpc EXCEPT ![c] =
                            IF i = NumInstruments THEN "return" ELSE "observe"]
               /\ lock' = lock
    /\ UNCHANGED << cset, cnow, calls, keep, reports, setupVars, refreshVars, envVars, conv, tl, rc >>

\* what one invocation reported: its now, the refresh time of the snapshot
\* it used, and its observations
Report(c) ==
    [setup |-> cset[c], now |-> cnow[c], last |-> lastDBStats[cset[c]], obs |-> obs[c]]

\* return nil, which runs the deferred lock.Unlock(); the locals of the
\* invocation are gone
CallbackReturn(c) ==
    /\ cpc[c] = "return"
    /\ lock' = [lock EXCEPT ![cset[c]] = NoOwner]
    /\ reports' = IF keep THEN Append(reports, Report(c)) ELSE reports
    /\ cpc' = [cpc EXCEPT ![c] = "returned"]
    /\ cset' = [cset EXCEPT ![c] = 1]
    /\ cnow' = [cnow EXCEPT ![c] = ZeroTime]
    /\ obs' = [obs EXCEPT ![c] = << >>]
    /\ UNCHANGED << calls, keep, setupVars, refreshVars, envVars, conv, tl, rc >>

\* ------------------------------------------------------------ the program
Setup(s) ==
    \/ RecordStats(s)
    \/ NewMeterProvider(s)
    \/ ApplyOptions(s)
    \/ SetupLock(s)
    \/ CreateInstrument(s)
    \/ RegisterCallback(s)
    \/ SetupReturn(s)

Callback(c) ==
    \/ \E s \in Setups : CallbackStart(c, s)
    \/ CallbackLock(c)
    \/ CallbackRefresh(c)
    \/ CallbackObserve(c)
    \/ CallbackReturn(c)

Next ==
    \/ \E s \in Setups : Setup(s)
    \/ \E c \in Callers : Callback(c)

Spec == Init /\ [][Next]_vars

\* One setup whose callbacks' reports are kept, for the intervals d >= 0:
\* zero, the default and a longer one.
ReportOptionLists ==
    { << >> } \cup { << WithMinimumReadDBStatsInterval(d) >> : d \in {0, 2} }

InitReports == InitFor({1}, ReportOptionLists, TRUE, MaxCalls)

SpecReports == InitReports /\ [][Next]_vars

\* the interval the callback of setup s compares with
Interval(s) == o[s].minimumReadDBStatsInterval

Abs(x) == IF x < 0 THEN 0 - x ELSE x

ReportPairs == { p \in (1..Len(reports)) \X (1..Len(reports)) : p[1] < p[2] }

\* ---------------------------------------------------------------------- C1
\* C1 as stated: for d >= 0, any two invocations of one setup whose now
\* values are less than d apart report identical values on all instruments.
\* Violated: with d = 2 an invocation at 1 reuses the snapshot read at 0 and
\* an invocation at 2 refreshes it.
C1_AsStated ==
    \A p \in ReportPairs :
        LET a == reports[p[1]]
            b == reports[p[2]]
        IN (/\ a.setup = b.setup
            /\ Interval(a.setup) >= 0
            /\ Abs(b.now - a.now) < Interval(a.setup))
           => a.obs = b.obs

\* C1, amended: for d >= 0, two invocations of one setup report identical
\* values on all twelve instruments whenever the later one's now is less
\* than d after the time at which the snapshot the earlier one reported
\* was read, whatever the pool's statistics did in between.
C1_SameSnapshotWithinInterval ==
    \A p \in ReportPairs :
        LET a == reports[p[1]]
            b == reports[p[2]]
        IN (/\ a.setup = b.setup
            /\ Interval(a.setup) >= 0
            /\ b.now - a.last < Interval(a.setup))
           => a.obs = b.obs

\* two invocations at different times, the later within d of the refresh
\* the earlier one reported, have reported the same values
C1_Witness ==
    \E p \in ReportPairs :
        LET a == reports[p[1]]
            b == reports[p[2]]
        IN /\ a.setup = b.setup
           /\ Interval(a.setup) >= 0
           /\ b.now - a.last < Interval(a.setup)
           /\ b.now > a.now
           /\ Len(b.obs) = NumInstruments
           /\ a.obs = b.obs

\* an invocation that holds the lock: between lock.Lock() and the deferred
\* lock.Unlock()
InCritical(c) == cpc[c] \in {"refresh", "observe", "return"}

\* an invocation that has made its refresh decision and is reporting
Reporting(c) == cpc[c] \in {"observe", "return"}

\* an invocation that is inside the callback, or left it in a panic
Started(c) == cpc[c] \in {"lock", "refresh", "observe", "return", "panicked"}

\* ---------------------------------------------------------------------- C2
\* C2: whenever an invocation reports, the snapshot it reports is there and
\* was refreshed at lastDBStats with now - lastDBStats < d if the interval d
\* is positive, and with lastDBStats = now if d is zero or negative; the
\* cached snapshot is empty only while db.Stat() has not been called and no
\* invocation has got past its refresh decision.
C2_Staleness ==
    /\ \A c \in Callers :
         Reporting(c) =>
           LET s == cset[c]
           IN /\ dbStats[s] # << >>
              /\ Interval(s) > 0 =>
                   (cnow[c] - lastDBStats[s] < Interval(s) /\ lastDBStats[s] <= cnow[c])
              /\ Interval(s) <= 0 => lastDBStats[s] = cnow[c]
    /\ \A s \in Setups :
         dbStats[s] = << >> =>
            /\ statCalls[s] = 0
            /\ \A c \in Callers : cset[c] = s => cpc[c] \notin {"observe", "return", "panicked"}

\* an invocation is reporting a snapshot that is older than its now but
\* younger than the positive interval
C2_Witness ==
    \E c \in Callers :
        /\ cpc[c] = "observe"
        /\ Len(obs[c]) > 0
        /\ Interval(cset[c]) > 0
        /\ lastDBStats[cset[c]] < cnow[c]
        /\ cnow[c] - lastDBStats[cset[c]] < Interval(cset[c])

\* ---------------------------------------------------------------------- C3
\* C3: the step of an invocation that decides on the refresh: if
\* now - lastDBStats >= d it calls db.Stat() once, stores the result in
\* dbStats and sets lastDBStats to now; otherwise it does not call db.Stat()
\* and leaves dbStats and lastDBStats as they are.  No other step calls
\* db.Stat() or changes the two.  With d <= 0 every invocation calls it.
C3_Step(c) ==
    LET s == cset[c]
        now == cnow'[c]
    IN /\ now = Now(clock')
       /\ IF now - lastDBStats[s] >= Interval(s)
          THEN /\ statCalls'[s] = statCalls[s] + 1
               /\ dbStats'[s] = << PoolStat(pool') >>
               /\ lastDBStats'[s] = now
          ELSE /\ statCalls'[s] = statCalls[s]
               /\ dbStats'[s] = dbStats[s]
               /\ lastDBStats'[s] = lastDBStats[s]
       /\ Interval(s) <= 0 => statCalls'[s] = statCalls[s] + 1
       /\ \A t \in Setups \ {s} :
            /\ statCalls'[t] = statCalls[t]
            /\ dbStats'[t] = dbStats[t]
            /\ lastDBStats'[t] = lastDBStats[t]

C3_Action ==
    IF \E c \in Callers : cpc[c] = "refresh" /\ cpc'[c] = "observe"
    THEN \A c \in Callers : (cpc[c] = "refresh" /\ cpc'[c] = "observe") => C3_Step(c)
    ELSE UNCHANGED refreshVars

C3_RefreshDecision == [][C3_Action]_vars

\* one setup's callback has called db.Stat() and, in the invocation now
\* reporting, at a later time, has left the pool alone and reused the
\* snapshot
C3_Witness ==
    \E c \in Callers :
        /\ cpc[c] = "observe"
        /\ statCalls[cset[c]] >= 1
        /\ lastDBStats[cset[c]] < cnow[c]
        /\ Len(obs[c]) = NumInstruments - 1

\* ---------------------------------------------------------------------- C4
\* C4: at most one invocation of a setup's callback is between lock.Lock()
\* and lock.Unlock(), it is the owner of the lock, and everything it has
\* observed so far is the value of one snapshot, the cached one.
C4_Serialized ==
    /\ \A c1, c2 \in Callers :
         (c1 # c2 /\ cset[c1] = cset[c2]) => ~(InCritical(c1) /\ InCritical(c2))
    /\ \A c \in Callers :
         InCritical(c) => lock[cset[c]] = CallbackOwner(c)
    /\ \A c \in Callers :
         Reporting(c) =>
           /\ dbStats[cset[c]] # << >>
           /\ \A k \in 1..Len(obs[c]) :
                obs[c][k].value = ObservedValue(Head(dbStats[cset[c]]), k)

\* one invocation is half way through its observations, after an earlier
\* one has run, and another waits for the lock
C4_Witness ==
    \E c \in Callers :
        /\ cpc[c] = "observe"
        /\ Len(obs[c]) = 6
        /\ statCalls[cset[c]] >= 2
        /\ \E w \in Callers : cpc[w] = "lock" /\ cset[w] = cset[c]

\* ---------------------------------------------------------------------- C5
\* C5: an invocation that holds the lock, and so may read a handle or
\* observe, finds setup returned and all twelve handles assigned; every
\* observation made carries the handle of its instrument.
C5_SetupFirst ==
    \A c \in Callers :
        /\ InCritical(c) =>
             /\ pc[cset[c]] = "returned"
             /\ \A i \in Instruments : handles[cset[c]][i] # << >>
        /\ \A k \in 1..Len(obs[c]) :
             obs[c][k].instrument =
               << [meter |-> MeterOf(cset[c]), name |-> InstrumentNames[k]] >>

\* the callback is registered and an invocation of it already waits for the
\* lock, while setup has not returned and still holds the lock
C5_Witness ==
    \E c \in Callers :
        /\ cpc[c] = "lock"
        /\ pc[cset[c]] = "unlock"
        /\ registrations[cset[c]] = 1
        /\ lock[cset[c]] = SetupOwner(cset[c])

\* ---------------------------------------------------------------------- C6
ThreadStep(c) == CallbackRefresh(c) \/ CallbackObserve(c) \/ CallbackReturn(c)

\* some goroutine is inside recordStats or inside the callback
Busy ==
    \/ \E s \in Setups : (s \in program /\ pc[s] # "returned")
    \/ \E c \in Callers : cpc[c] \in {"lock", "refresh", "observe", "return"}

\* a step of a goroutine that is inside recordStats or inside the callback
BusyStep ==
    \/ \E s \in Setups : Setup(s)
    \/ \E c \in Callers : CallbackLock(c) \/ ThreadStep(c)

\* Fair scheduling: while some goroutine inside recordStats or the callback
\* can take a step, one of them does.  Each invocation runs once, so this is
\* all the fairness the waiters at the lock need.
Fairness == WF_vars(BusyStep)

FairOptionLists == { << >>, << WithMinimumReadDBStatsInterval(0) >> }

InitFair == InitFor({1}, FairOptionLists, FALSE, MaxCalls)

SpecFair == InitFair /\ [][Next]_vars /\ Fairness

\* whoever owns the lock is a call of recordStats that has not returned or
\* an invocation that has not returned: no exit path leaves the lock held
ReleasedOnExit ==
    /\ \A s \in Setups :
         /\ lock[s] = SetupOwner(s) => pc[s] \in {"create", "register", "unlock"}
         /\ pc[s] \in {"create", "register", "unlock"} => lock[s] = SetupOwner(s)
         /\ \A c \in Callers :
              lock[s] = CallbackOwner(c) => (cset[c] = s /\ InCritical(c))
         /\ (pc[s] = "returned" /\ ret[s] # NilErr) => lock[s] = NoOwner
    /\ \A c \in Callers :
         cpc[c] \in {"returned", "panicked"} => lock[cset[c]] # CallbackOwner(c)

NoDeadlock == Busy => ENABLED BusyStep

\* no invocation ends in a panic: one that is no longer inside the callback
\* has returned
NoPanic == \A c \in Callers : cpc[c] # "panicked"

\* C6: the lock is released on every exit path of recordStats (success, the
\* error of any creation, the error of the registration) and of the
\* callback; no reachable state is a deadlock; and under fair scheduling
\* every call of recordStats and every invocation that has started gets
\* the lock and returns: in the end, and for good, none is inside.
C6_LockReleased ==
    /\ []ReleasedOnExit
    /\ []NoDeadlock
    /\ []NoPanic
    /\ <>[](~Busy)

\* every invocation has run and returned, the last one after waiting for
\* the lock, and the lock is free
C6_Witness ==
    /\ \A c \in Callers : cpc[c] = "returned"
    /\ pc[1] = "returned"
    /\ lock[1] = NoOwner
    /\ statCalls[1] >= 1

\* ---------------------------------------------------------------------- C7
\* the index of the instrument whose creation failed with error e
FailedAt(e) == CHOOSE i \in Instruments : e = CreateErr(i)

\* C7: when the creation of instrument k fails, recordStats returns that
\* error: the instruments before k are created and stay, no instrument from
\* k on is created, no callback is registered, and no invocation of this
\* setup runs or calls db.Stat().
C7_CreationError ==
    \A s \in Setups :
        (ret[s].op = "create") =>
            /\ pc[s] \in {"unlock", "returned"}
            /\ \E i \in Instruments : ret[s] = CreateErr(i)
            /\ RegisteredInstruments(s) = 1..(FailedAt(ret[s]) - 1)
            /\ \A i \in Instruments :
                 created[MeterOf(s)][i] =
                   Cardinality({ u \in Setups :
                                   MeterOf(u) = MeterOf(s) /\ handles[u][i] # << >> })
            /\ registrations[s] = 0
            /\ callbacks[s] = {}
            /\ statCalls[s] = 0
            /\ dbStats[s] = << >>
            /\ \A c \in Callers : Started(c) => cset[c] # s

\* recordStats has returned the error of the fifth creation, with four
\* instruments created
C7_Witness ==
    /\ pc[1] = "returned"
    /\ ret[1] = CreateErr(5)
    /\ RegisteredInstruments(1) = 1..4

\* ---------------------------------------------------------------------- C8
\* C8: when newMeterProvider fails, RecordStats has returned that error, has
\* created no instrument and registered no callback, whatever the options.
C8_ExporterError ==
    \A s \in Setups :
        (ret[s] = ExporterErr) =>
            /\ pc[s] = "returned"
            /\ RegisteredInstruments(s) = {}
            /\ \A p \in Providers : \A i \in Instruments :
                 created[p][i] =
                   Cardinality({ u \in Setups : MeterOf(u) = p /\ handles[u][i] # << >> })
            /\ registrations[s] = 0
            /\ callbacks[s] = {}
            /\ lock[s] = NoOwner
            /\ statCalls[s] = 0

\* RecordStats, called with an interval and a meter provider, has returned
\* the exporter's error
C8_Witness ==
    /\ ret[1] = ExporterErr
    /\ pc[1] = "returned"
    /\ Len(opts[1]) = 2
    /\ opts[1][2] = WithMeterProvider(GivenProvider)

\* ---------------------------------------------------------------------- C9
\* RecordStats is called twice with the same meter provider, and so
\* recordStats twice on the same meter; the runtime makes two invocations,
\* each of either callback.
TwoOptionLists ==
    { << WithMeterProvider(GivenProvider) >>,
      << WithMeterProvider(GivenProvider), WithMinimumReadDBStatsInterval(0) >> }

InitTwo == InitFor(Setups, TwoOptionLists, FALSE, 2)

SpecTwo == InitTwo /\ [][Next]_vars

\* a call that returned nil has created each of the twelve instruments once
\* and registered one callback for all twelve; the meter has seen one
\* creation of an instrument for each call that holds its handle
OncePerSetup ==
    /\ \A s \in Setups :
         (pc[s] = "returned" /\ ret[s] = NilErr) =>
            /\ RegisteredInstruments(s) = Instruments
            /\ registrations[s] = 1
            /\ callbacks[s] = Instruments
    /\ \A s \in Setups : registrations[s] <= 1
    /\ \A p \in Providers : \A i \in Instruments :
         created[p][i] =
           Cardinality({ s \in Setups : MeterOf(s) = p /\ handles[s][i] # << >> })

\* the setup whose invocation takes this step, if the step is one of an
\* invocation inside the callback
StepOf(s) ==
    \E c \in Callers :
        /\ cset[c] = s
        /\ cpc[c] \in {"lock", "refresh", "observe", "return"}
        /\ cpc'[c] # cpc[c]

\* a step of an invocation of one setup's callback leaves the lock, the
\* snapshot and the refresh time of every other setup alone
Independent ==
    \A s \in Setups :
        StepOf(s) =>
            \A t \in Setups \ {s} :
                /\ lock'[t] = lock[t]
                /\ dbStats'[t] = dbStats[t]
                /\ lastDBStats'[t] = lastDBStats[t]
                /\ statCalls'[t] = statCalls[t]

\* C9: a successful setup creates each of the twelve instruments once and
\* registers one callback for all twelve; of two setups on one meter, each
\* returns an error or yields a registration with a lock, a snapshot and a
\* refresh time of its own, which the other's callback never changes.
C9_IndependentSetups == []OncePerSetup /\ [][Independent]_vars

\* both setups, on the same meter, have returned nil; the callback of one
\* has refreshed its snapshot and is observing while the other's has not
\* run: its snapshot is still empty and its lock is free
C9_Witness ==
    /\ \A s \in Setups : pc[s] = "returned" /\ ret[s] = NilErr
    /\ MeterOf(1) = MeterOf(2)
    /\ \E c \in Callers :
         /\ cpc[c] = "observe"
         /\ dbStats[cset[c]] # << >>
         /\ \A t \in Setups \ {cset[c]} :
              dbStats[t] = << >> /\ lastDBStats[t] = ZeroTime /\ lock[t] = NoOwner

\* --------------------------------------------------------------------- C10
\* The converter alone: a level is converted to the other side and back.
\* conv.dir names the side the input is on.
ConvInputs ==
    { [dir |-> "slog", step |-> 0, input |-> l, mid |-> 0, back |-> 0] :
        l \in SlogInputs }
    \cup { [dir |-> "tracelog", step |-> 0, input |-> l, mid |-> 0, back |-> 0] :
             l \in TraceLogInputs }

InitConv ==
    /\ InitMetrics({}, { << >> }, FALSE, 0)
    /\ conv \in ConvInputs
    /\ tl = NoTraceLogger
    /\ rc = NoResource

\* c.ToTraceLogLevel(level): of the slog level given, or of the slog level
\* that ToSlogLevel returned
ConvertToTraceLogLevel ==
    /\ \/ /\ conv.dir = "slog" /\ conv.step = 0
          /\ conv' = [conv EXCEPT !.step = 1, !.mid = ToTraceLogLevel(conv.input)]
       \/ /\ conv.dir = "tracelog" /\ conv.step = 1
          /\ conv' = [conv EXCEPT !.step = 2, !.back = ToTraceLogLevel(conv.mid)]
    /\ UNCHANGED << setupVars, lock, refreshVars, callerVars, envVars, tl, rc >>

\* c.ToSlogLevel(level): of the tracelog level given, or of the tracelog
\* level that ToTraceLogLevel returned
ConvertToSlogLevel ==
    /\ \/ /\ conv.dir = "tracelog" /\ conv.step = 0
          /\ conv' = [conv EXCEPT !.step = 1, !.mid = ToSlogLevel(conv.input)]
       \/ /\ conv.dir = "slog" /\ conv.step = 1
          /\ conv' = [conv EXCEPT !.step = 2, !.back = ToSlogLevel(conv.mid)]
    /\ UNCHANGED << setupVars, lock, refreshVars, callerVars, envVars, tl, rc >>

NextConv == ConvertToTraceLogLevel \/ ConvertToSlogLevel

SpecConv == InitConv /\ [][NextConv]_vars

\* the defined levels of the side the input is on, of the other side, and
\* the other side's none
DomainOf(dir) == IF dir = "slog" THEN SlogLevels ELSE TraceLogLevels
RangeOf(dir) == IF dir = "slog" THEN TraceLogLevels ELSE SlogLevels
NoneOf(dir) == IF dir = "slog" THEN LogLevelNone ELSE LevelNone

\* C10: the default converter maps the six defined slog levels one-to-one
\* onto the six tracelog levels: a defined level of either side converts to
\* a defined level of the other side, and converting that back gives the
\* level started from; a level outside the six converts to the other side's
\* none, from either side.
C10_ConverterBijection ==
    /\ conv.step >= 1 /\ conv.input \in DomainOf(conv.dir)
         => conv.mid \in RangeOf(conv.dir)
    /\ conv.step = 2 /\ conv.input \in DomainOf(conv.dir)
         => conv.back = conv.input
    /\ conv.step >= 1 /\ conv.input \notin DomainOf(conv.dir)
         => conv.mid = NoneOf(conv.dir)

\* the level the repository adds below slog's own, trace, has gone to the
\* tracelog side and come back
C10_Witness ==
    /\ conv.dir = "slog" /\ conv.step = 2
    /\ conv.input = LevelTrace /\ conv.mid = LogLevelTrace /\ conv.back = LevelTrace

\* ------------------------------------------------------------------ logger
\* A *slog.Logger is nil or has a handler; of the handler only the levels
\* it enables matter.
NilLogger == [nil |-> TRUE, enabled |-> {}]

\* slog.New(handler) with HandlerOptions{Level: min}: a level is enabled
\* when it is min or above
HandlerAt(min) == [nil |-> FALSE, enabled |-> { l \in SlogLevels : l >= min }]

\* a handler of the application's own, which enables what it likes
OddHandler == [nil |-> FALSE, enabled |-> {LevelDebug, LevelError}]

\* the loggers an application passes: none, one for each threshold, one
\* that enables nothing, one that enables two levels apart
Loggers ==
    {NilLogger, OddHandler}
    \cup { HandlerAt(m) : m \in SlogLevels \cup {LevelNone + 1} }

\* l.logger.Enabled(ctx, level)
Enabled(logger, level) == level \in logger.enabled

\* LogLevelConverter: the default one, and one of the application's that
\* maps a level to the defined level at or above it
DefaultConverter == "defaultLogLevelConverter"
CustomConverter == "custom"
Converters == {DefaultConverter, CustomConverter}

CustomToTraceLogLevel(level) ==
    CASE level <= LevelTrace -> LogLevelTrace
      [] level <= LevelDebug -> LogLevelDebug
      [] level <= LevelInfo -> LogLevelInfo
      [] level <= LevelWarn -> LogLevelWarn
      [] level <= LevelError -> LogLevelError
      [] OTHER -> LogLevelNone

\* ll.converter.ToTraceLogLevel(level)
ConverterToTraceLogLevel(c, level) ==
    IF c = DefaultConverter THEN ToTraceLogLevel(level) ELSE CustomToTraceLogLevel(level)

\* the options, as values
WithLogLevel(level) ==
    [opt |-> "WithLogLevel", level |-> level, logger |-> NilLogger,
     converter |-> DefaultConverter]
WithLogger(logger) ==
    [opt |-> "WithLogger", level |-> 0, logger |-> logger,
     converter |-> DefaultConverter]
WithLogLevelConverter(c) ==
    [opt |-> "WithLogLevelConverter", level |-> 0, logger |-> NilLogger,
     converter |-> c]

\* the levels given to WithLogLevel: defined ones and one between two
LevelChoices == {LevelTrace, LevelDebug, LevelError, LevelWarn + 1}

LoggerOptions ==
    { WithLogLevel(l) : l \in LevelChoices }
    \cup { WithLogger(lg) : lg \in Loggers }
    \cup { WithLogLevelConverter(c) : c \in Converters }

\* the option lists of up to max options
LoggerOptionLists(max) == UNION { [1..n -> LoggerOptions] : n \in 0..max }

\* the list WithLogger and WithLogLevelConverter pass to determineLogLevel
CandidateLevels ==
    << LevelTrace, LevelDebug, LevelInfo, LevelWarn, LevelError, LevelNone >>

\* the six levels listed in any order, as a caller of determineLogLevel may
Listings(levels) ==
    { f \in [1..Cardinality(levels) -> levels] :
        \A i, j \in 1..Cardinality(levels) : i # j => f[i] # f[j] }

\* slices.Sort(levels)
Ascending(a, b) == a < b
Sort(levels) == SortSeq(levels, Ascending)

\* Logger.determineLogLevel: the first enabled level of the sorted list
determineLogLevel(logger, levels) ==
    IF logger.nil
    THEN LevelNone
    ELSE LET sorted == Sort(levels)
             on == { i \in 1..Len(sorted) : Enabled(logger, sorted[i]) }
         IN IF on = {}
            THEN LevelNone
            ELSE sorted[CHOOSE i \in on : \A k \in on : i <= k]

\* the metrics side is idle, no level is being converted alone and no
\* resource is being made
otherVars == << setupVars, lock, refreshVars, callerVars, envVars, conv, rc >>

\* NewTraceLogger(opts...) is called with any option list, or
\* determineLogLevel is called on a Logger with the six levels in any order
TraceLoggerCalls(max) ==
    { [pc |-> "NewTraceLogger", given |-> g, rest |-> g, logger |-> NilLogger,
       converter |-> DefaultConverter, level |-> 0, isLevelSet |-> FALSE,
       levels |-> << >>, LogLevel |-> 0] : g \in LoggerOptionLists(max) }
    \cup
    { [pc |-> "determineLogLevel", given |-> << >>, rest |-> << >>, logger |-> lg,
       converter |-> DefaultConverter, level |-> 0, isLevelSet |-> FALSE,
       levels |-> ls, LogLevel |-> 0] : lg \in Loggers, ls \in Listings(SlogLevels) }

InitLogger ==
    /\ InitMetrics({}, { << >> }, FALSE, 0)
    /\ conv = NoConv
    /\ tl \in TraceLoggerCalls(MaxOpts)
    /\ rc = NoResource

\* newLogger: the Logger before the options are applied; its own handler
\* has Level: LevelNone
NewLogger ==
    /\ tl.pc = "NewTraceLogger"
    /\ tl' = [tl EXCEPT !.pc = "options",
                        !.logger = HandlerAt(LevelNone),
                        !.converter = DefaultConverter,
                        !.level = LevelNone,
                        !.isLevelSet = FALSE]
    /\ UNCHANGED otherVars

\* opt(&logger) for an option made by WithLogLevel
ApplyWithLogLevel ==
    /\ tl.pc = "options" /\ tl.rest # << >>
    /\ Head(tl.rest).opt = "WithLogLevel"
    /\ tl' = [tl EXCEPT !.rest = Tail(tl.rest),
                        !.level = Head(tl.rest).level,
                        !.isLevelSet = TRUE]
    /\ UNCHANGED otherVars

\* a bug: the level is determined from the logger though WithLogLevel set it
ApplyWithLoggerAlways ==
    /\ tl.pc = "options" /\ tl.rest # << >>
    /\ Head(tl.rest).opt = "WithLogger"
    /\ tl' = [tl EXCEPT !.rest = Tail(tl.rest),
                        !.logger = Head(tl.rest).logger,
                        !.level = determineLogLevel(Head(tl.rest).logger, CandidateLevels)]
    /\ UNCHANGED otherVars

\* opt(&logger) for an option made by WithLogger
ApplyWithLogger ==
    /\ tl.pc = "options" /\ tl.rest # << >>
    /\ Head(tl.rest).opt = "WithLogger"
    /\ tl' = [tl EXCEPT !.rest = Tail(tl.rest),
                        !.logger = Head(tl.rest).logger,
                        !.level = IF tl.isLevelSet
                                  THEN @
                                  ELSE determineLogLevel(Head(tl.rest).logger,
                                                         CandidateLevels)]
    /\ UNCHANGED otherVars

\* opt(&logger) for an option made by WithLogLevelConverter
ApplyWithLogLevelConverter ==
    /\ tl.pc = "options" /\ tl.rest # << >>
    /\ Head(tl.rest).opt = "WithLogLevelConverter"
    /\ tl' = [tl EXCEPT !.rest = Tail(tl.rest),
                        !.converter = Head(tl.rest).converter,
                        !.level = IF tl.isLevelSet
                                  THEN @
                                  ELSE determineLogLevel(tl.logger, CandidateLevels)]
    /\ UNCHANGED otherVars

\* NewTraceLogger: the options are applied, the TraceLog is returned
NewTraceLoggerReturn ==
    /\ tl.pc = "options" /\ tl.rest = << >>
    /\ tl' = [tl EXCEPT !.pc = "returned",
                        !.LogLevel = ConverterToTraceLogLevel(tl.converter, tl.level)]
    /\ UNCHANGED otherVars

\* logger.determineLogLevel(ctx, levels), called on a Logger directly
DetermineLogLevel ==
    /\ tl.pc = "determineLogLevel"
    /\ tl' = [tl EXCEPT !.pc = "determined",
                        !.level = determineLogLevel(tl.logger, tl.levels)]
    /\ UNCHANGED otherVars

NextLogger ==
    \/ NewLogger
    \/ ApplyWithLogLevel
    \/ ApplyWithLogger
    \/ ApplyWithLogLevelConverter
    \/ NewTraceLoggerReturn
    \/ DetermineLogLevel

SpecLogger == InitLogger /\ [][NextLogger]_vars

\* ---------------------------------------------------------------- resource
\* attribute.KeyValue.  A key is a sequence of pieces of text, so that the
\* key of a runtime parameter can be put together; a value is a string or
\* an int64.
String(key, v) == [key |-> key, type |-> "STRING", s |-> v, n |-> 0]
Int64(key, v) == [key |-> key, type |-> "INT64", s |-> "", n |-> v]

\* strings.ToLower, letter by letter, for the letters the parameter names
\* here are made of
LowerLetter(ch) ==
    CASE ch = "A" -> "a"
      [] ch = "N" -> "n"
      [] ch = "T" -> "t"
      [] ch = "Z" -> "z"
      [] OTHER -> ch
ToLower(name) == [i \in 1..Len(name) |-> LowerLetter(name[i])]

\* fmt.Sprintf("db.runtime_param.%s", strings.ToLower(k))
RuntimeParamKey(k) == << "db.runtime_param." >> \o ToLower(k)

\* time.Duration.String(), of a duration of whole seconds
DurationString(d) ==
    IF d < 60
    THEN ToString(d) \o "s"
    ELSE IF d < 3600
         THEN ToString(d \div 60) \o "m" \o ToString(d % 60) \o "s"
         ELSE ToString(d \div 3600) \o "h" \o ToString((d % 3600) \div 60) \o "m"
              \o ToString(d % 60) \o "s"

\* *pgxpool.Config with its ConnConfig: durations in seconds, RuntimeParams
\* as the set of the map's entries
PgxConfig(host, port, lifetime, params) ==
    [Database |-> "app",
     ConnString |-> "postgres://" \o host,
     MaxConnLifetime |-> lifetime,
     MaxConnIdleTime |-> 1800,
     MaxConns |-> 4,
     MinConns |-> 0,
     HealthCheckPeriod |-> 60,
     StatementCacheCapacity |-> 512,
     DescriptionCacheCapacity |-> 0,
     Host |-> host,
     Port |-> port,
     User |-> "postgres",
     ConnectTimeout |-> 0,
     KerberosSrvName |-> "",
     KerberosSpn |-> "",
     RuntimeParams |-> params]

\* runtime parameters: names in mixed and in lower case
ParamTZ == [k |-> << "T", "Z" >>, v |-> "UTC"]
ParamName == [k |-> << "A", "p", "p", "N" >>, v |-> "svc"]
ParamPath == [k |-> << "p", "a", "t", "h" >>, v |-> "public"]

PgxConfigs ==
    { PgxConfig("localhost", 5432, 3600, {}),
      PgxConfig("db1", 5433, 90, {ParamTZ}),
      PgxConfig("db1", 5432, 45, {ParamTZ, ParamName}),
      PgxConfig("db2", 6432, 3600, {ParamName, ParamPath}) }

\* *ResourceConfig
ResourceConfigs ==
    { [ServiceName |-> "api", ServiceVersion |-> "1.0", ServiceEnv |-> "prod"],
      [ServiceName |-> "", ServiceVersion |-> "", ServiceEnv |-> ""] }

\* attrs ...attribute.KeyValue: the caller's extra attributes
ExtraAttrs ==
    { << >>,
      << String(<< "team" >>, "storage") >>,
      << String(<< "team" >>, "storage"), Int64(<< "shard" >>, 7) >> }

\* the orders in which range may go through the entries of a map
MapOrders(entries) ==
    { f \in [1..Cardinality(entries) -> entries] :
        \A i, j \in 1..Cardinality(entries) : i # j => f[i] # f[j] }

\* parsePgxConfig: the sixteen fixed attributes, then one per runtime
\* parameter in the order the range over the map takes
parsePgxConfig(config, order) ==
    << String(<< "db.system" >>, "postgresql"),
       String(<< "db.name" >>, config.Database),
       String(<< "db.connection_string" >>, config.ConnString),
       String(<< "db.max_conn_lifetime" >>, DurationString(config.MaxConnLifetime)),
       String(<< "db.max_conn_idle_time" >>, DurationString(config.MaxConnIdleTime)),
       Int64(<< "db.max_conns" >>, config.MaxConns),
       Int64(<< "db.min_conns" >>, config.MinConns),
       String(<< "db.health_check_period" >>, DurationString(config.HealthCheckPeriod)),
       Int64(<< "db.statement_cache_capacity" >>, config.StatementCacheCapacity),
       Int64(<< "db.description_cache_capacity" >>, config.DescriptionCacheCapacity),
       String(<< "db.host" >>, config.Host),
       Int64(<< "db.port" >>, config.Port),
       String(<< "db.user" >>, config.User),
       String(<< "db.connect_timeout" >>, DurationString(config.ConnectTimeout)),
       String(<< "db.kerberos_srv_name" >>, config.KerberosSrvName),
       String(<< "db.kerberos_spn" >>, config.KerberosSpn) >>
    \o [i \in 1..Len(order) |-> String(RuntimeParamKey(order[i].k), order[i].v)]

\* the three service attributes createOTelResource starts from
ServiceAttrs(config) ==
    << String(<< "service.name" >>, config.ServiceName),
       String(<< "service.version" >>, config.ServiceVersion),
       String(<< "deployment.environment" >>, config.ServiceEnv) >>

\* resource.NewWithAttributes: a set of attributes, of two with one key the
\* later one
NewWithAttributes(attrs) ==
    { attrs[i] : i \in { k \in 1..Len(attrs) :
                           \A j \in (k + 1)..Len(attrs) : attrs[j].key # attrs[k].key } }

\* resource.Default(): what the SDK says of itself
DefaultResource ==
    { String(<< "service.name" >>, "unknown_service"),
      String(<< "telemetry.sdk.language" >>, "go"),
      String(<< "telemetry.sdk.name" >>, "opentelemetry") }

\* resource.Merge(a, b): b's attributes, and a's under keys b has not
Merge(a, b) == b \cup { x \in a : \A y \in b : y.key # x.key }

\* createOTelResource(config, pc, attrs...) is called
ResourceCalls ==
    { [pc |-> "createOTelResource", config |-> c, pgx |-> p, attrs |-> a,
       initialAttrs |-> << >>, finalAttrs |-> << >>, resource |-> {},
       isNil |-> TRUE, err |-> NilErr] :
        c \in ResourceConfigs, p \in PgxConfigs, a \in ExtraAttrs }

\* the error resource.Merge may return
MergeErr == [op |-> "resource.Merge", name |-> ""]

\* the variables a step of createOTelResource leaves alone
notResourceVars == << setupVars, lock, refreshVars, callerVars, envVars, conv, tl >>

InitResource ==
    /\ InitMetrics({}, { << >> }, FALSE, 0)
    /\ conv = NoConv
    /\ tl = NoTraceLogger
    /\ rc \in ResourceCalls

\* initialAttrs := []attribute.KeyValue{...}
InitialAttrs ==
    /\ rc.pc = "createOTelResource"
    /\ rc' = [rc EXCEPT !.pc = "parsePgxConfig",
                        !.initialAttrs = ServiceAttrs(rc.config)]
    /\ UNCHANGED notResourceVars

\* finalAttrs := append(initialAttrs, parsePgxConfig(pc)...)
AppendPgxConfig ==
    /\ rc.pc = "parsePgxConfig"
    /\ \E order \in MapOrders(rc.pgx.RuntimeParams) :
         rc' = [rc EXCEPT !.pc = "attrs",
                          !.finalAttrs = rc.initialAttrs \o parsePgxConfig(rc.pgx, order)]
    /\ UNCHANGED notResourceVars

\* finalAttrs = append(initialAttrs, attrs...)
AppendAttrs ==
    /\ rc.pc = "attrs"
    /\ rc' = [rc EXCEPT !.pc = "Merge",
                        !.finalAttrs = rc.initialAttrs \o rc.attrs]
    /\ UNCHANGED notResourceVars

\* resource.Merge(resource.Default(), resource.NewWithAttributes(...)) and
\* the return: nil and the error, or the resource and nil
MergeAndReturn ==
    /\ rc.pc = "Merge"
    /\ \E ok \in BOOLEAN :
         rc' = IF ok
               THEN [rc EXCEPT !.pc = "returned",
                               !.resource = Merge(DefaultResource,
                                                  NewWithAttributes(rc.finalAttrs)),
                               !.isNil = FALSE]
               ELSE [rc EXCEPT !.pc = "returned", !.err = MergeErr]
    /\ UNCHANGED notResourceVars

NextResource ==
    \/ InitialAttrs
    \/ AppendPgxConfig
    \/ AppendAttrs
    \/ MergeAndReturn

SpecResource == InitResource /\ [][NextResource]_vars

\* --------------------------------------------------------------------- C11
\* the options of one kind in the list given, and the one that is applied
\* last
Positions(g, kind) == { i \in 1..Len(g) : g[i].opt = kind }
Has(g, kind) == Positions(g, kind) # {}
LastGiven(g, kind) ==
    g[CHOOSE i \in Positions(g, kind) : \A k \in Positions(g, kind) : k <= i]

\* the converter of the TraceLog's Logger: the one given last, the default
\* one if none is given
ConverterGiven(g) ==
    IF Has(g, "WithLogLevelConverter")
    THEN LastGiven(g, "WithLogLevelConverter").converter
    ELSE DefaultConverter

\* the most verbose (numerically lowest) of the six levels a logger
\* enables; none for a logger that enables none of them
MostVerbose(logger) ==
    LET on == logger.enabled \cap SlogLevels
    IN IF logger.nil \/ on = {}
       THEN LevelNone
       ELSE CHOOSE l \in on : \A k \in on : l <= k

\* C11: the LogLevel of the TraceLog NewTraceLogger returns is none when no
\* option is given; the driver level of L when WithLogLevel(L) is given,
\* wherever it stands among WithLogger and WithLogLevelConverter options
\* (of several WithLogLevel options the last is the one in effect);
\* otherwise, when WithLogger(lg) is given, the driver level of the most
\* verbose of the six levels lg enables, none if it enables none.  And
\* determineLogLevel gives that most verbose level in whatever order the
\* six candidate levels are listed.
C11_LogLevelByOptions ==
    /\ tl.pc = "returned" =>
         LET g == tl.given
         IN /\ g = << >> => tl.LogLevel = LogLevelNone
            /\ Has(g, "WithLogLevel") =>
                 tl.LogLevel = ConverterToTraceLogLevel(ConverterGiven(g),
                                   LastGiven(g, "WithLogLevel").level)
            /\ ~Has(g, "WithLogLevel") /\ Has(g, "WithLogger") =>
                 tl.LogLevel = ConverterToTraceLogLevel(ConverterGiven(g),
                                   MostVerbose(LastGiven(g, "WithLogger").logger))
    /\ tl.pc = "determined" => tl.level = MostVerbose(tl.logger)

\* WithLogLevel(trace) came before WithLogger of a logger that enables
\* error and above, and the TraceLog's level is trace
C11_Witness ==
    /\ tl.pc = "returned"
    /\ tl.given = << WithLogLevel(LevelTrace), WithLogger(HandlerAt(LevelError)) >>
    /\ tl.LogLevel = LogLevelTrace

\* --------------------------------------------------------------------- C12
\* the field of the snapshot each instrument stands for, by the
\* instrument's name
FieldOf(name) ==
    CASE name = "pgxpool_acquires" -> "AcquireCount"
      [] name = "pgxpool_acquire_duration" -> "AcquireDuration"
      [] name = "pgxpool_acquired_conns" -> "AcquiredConns"
      [] name = "pgxpool_canceled_acquires" -> "CanceledAcquireCount"
      [] name = "pgxpool_constructing_conns" -> "ConstructingConns"
      [] name = "pgxpool_empty_acquire" -> "EmptyAcquireCount"
      [] name = "pgxpool_idle_conns" -> "IdleConns"
      [] name = "pgxpool_max_conns" -> "MaxConns"
      [] name = "pgxpool_max_idle_destroys" -> "MaxIdleDestroyCount"
      [] name = "pgxpool_max_lifetime_destroys" -> "MaxLifetimeDestroyCount"
      [] name = "pgxpool_new_conns" -> "NewConnsCount"
      [] name = "pgxpool_total_conns" -> "TotalConns"

\* what is to be reported for a field: its value, the acquire duration
\* divided by 1,000,000
Reported(st, field) ==
    IF field = "AcquireDuration"
    THEN [whole |-> st[field] \div 1000000, frac |-> st[field] % 1000000]
    ELSE [whole |-> st[field], frac |-> 0]

Queries(s) == statCalls'[s] > statCalls[s]

\* the invocation that makes the step's refresh decision for setup s
Decides(c, s) == cpc[c] = "refresh" /\ cpc'[c] = "observe" /\ cset[c] = s

C13_Step ==
    \A s \in Setups :
        Interval(s) > 0 =>
            /\ lastDBStats'[s] >= lastDBStats[s]
            /\ Queries(s) =>
                 \E c \in Callers :
                     /\ Decides(c, s)
                     /\ statCalls'[s] = statCalls[s] + 1
                     /\ lastDBStats'[s] = cnow'[c]
                     /\ statCalls[s] >= 1 => cnow'[c] - lastDBStats[s] >= Interval(s)

\* C13: with a positive interval d, every db.Stat() call of a setup's
\* callback is made by an invocation whose now becomes lastDBStats and is
\* at least d after the lastDBStats it found, which is the now of the
\* invocation that made the call before: two successive calls are made at
\* nows at least d apart.  And lastDBStats never decreases.
C13_QueryRate == [][C13_Step]_vars

\* the callback of a setup with a positive interval has called db.Stat()
\* for the second time, the invocation that did so is observing
C13_Witness ==
    \E s \in Setups, c \in Callers :
        /\ Interval(s) > 0
        /\ statCalls[s] >= 2
        /\ cset[c] = s /\ cpc[c] = "observe"
        /\ cnow[c] = lastDBStats[s]

\* --------------------------------------------------------------------- C14
\* the attributes of a list
AttrsOf(attrs) == { attrs[i] : i \in 1..Len(attrs) }

\* the keys the pool configuration is to appear under
PgxKeys(config) ==
    { << k >> : k \in { "db.system", "db.name", "db.connection_string",
                        "db.max_conn_lifetime", "db.max_conn_idle_time", "db.max_conns",
                        "db.min_conns", "db.health_check_period",
                        "db.statement_cache_capacity", "db.description_cache_capacity",
                        "db.host", "db.port", "db.user", "db.connect_timeout",
                        "db.kerberos_srv_name", "db.kerberos_spn" } }
    \cup { RuntimeParamKey(p.k) : p \in config.RuntimeParams }

\* C14: the resource createOTelResource returns holds the three service
\* attributes, every attribute parsePgxConfig derives from the pool
\* configuration (the sixteen fixed ones and one db.runtime_param.<name in
\* lower case> per runtime parameter), and every extra attribute of the
\* caller.
C14_ResourceAttributes ==
    rc.pc = "returned" /\ ~rc.isNil =>
        /\ AttrsOf(ServiceAttrs(rc.config)) \subseteq rc.resource
        /\ \A order \in MapOrders(rc.pgx.RuntimeParams) :
             AttrsOf(parsePgxConfig(rc.pgx, order)) \subseteq rc.resource
        /\ PgxKeys(rc.pgx) \subseteq { a.key : a \in rc.resource }
        /\ AttrsOf(rc.attrs) \subseteq rc.resource

\* what the code does: the resource holds the SDK's own attributes, the
\* three service attributes and the caller's extra ones, and nothing of the
\* pool configuration
C14_PgxAttributesDropped ==
    rc.pc = "returned" /\ ~rc.isNil =>
        /\ AttrsOf(ServiceAttrs(rc.config)) \subseteq rc.resource
        /\ AttrsOf(rc.attrs) \subseteq rc.resource
        /\ PgxKeys(rc.pgx) \cap { a.key : a \in rc.resource } = {}

\* a resource was returned for a pool configuration with two runtime
\* parameters, with two extra attributes
C14_Witness ==
    /\ rc.pc = "returned" /\ ~rc.isNil
    /\ Cardinality(rc.pgx.RuntimeParams) = 2
    /\ Len(rc.attrs) = 2

\* --------------------------------------------------------------------- C15
\* an invocation that is observing reads a snapshot db.Stat() has returned
SnapshotRead ==
    \A c \in Callers :
        /\ cpc[c] \in {"observe", "return"} =>
             /\ dbStats[cset[c]] # << >>
             /\ statCalls[cset[c]] >= 1
        /\ cpc[c] # "panicked"

\* the invocation that finds lastDBStats at the zero time refreshes,
\* whatever the interval; and a snapshot, once there, stays
FirstRefreshes ==
    \A s \in Setups :
        /\ (\E c \in Callers : Decides(c, s)) /\ lastDBStats[s] = ZeroTime =>
             /\ statCalls'[s] = statCalls[s] + 1
             /\ dbStats'[s] # << >>
             /\ lastDBStats'[s] # ZeroTime
        /\ dbStats[s] # << >> => dbStats'[s] # << >>

\* C15: the snapshot is never nil when a callback reads it: whatever the
\* interval is (negative, zero, positive, the largest Duration), the first
\* invocation after the setup takes the refresh branch, since lastDBStats
\* is the zero time; no step sets the snapshot back to nil; so whenever an
\* invocation makes its observations db.Stat() has been called at least
\* once.
C15_SnapshotNeverNil == []SnapshotRead /\ [][FirstRefreshes]_vars

\* an invocation observes under the largest interval there is: the one
\* db.Stat() call was the first invocation's
C15_Witness ==
    \E c \in Callers :
        /\ cpc[c] = "observe"
        /\ Interval(cset[c]) = MaxDuration
        /\ statCalls[cset[c]] = 1
        /\ calls >= 2
====
